---- MODULE Spec2Model ----
(***************************************************************************)
(* Model of tree-py/src/__init__.py: the NEKOTREE header check of          *)
(* Tree.open and the empty Tree.create.                                    *)
(*                                                                         *)
(* Bytes are integers 0..255, byte strings are sequences of bytes, text is *)
(* a sequence of Unicode code points.  The stream position is counted in   *)
(* bits, as bitstring counts it.                                           *)
(*                                                                         *)
(* Environment assumptions (library code, not part of the repository):     *)
(*   - ConstBitStream(filename=p) fails with FileNotFoundError when p does *)
(*     not exist and otherwise yields a read-only stream over the file's   *)
(*     bytes, positioned at bit 0;                                         *)
(*   - the with statement of line 18 has the semantics of a Python with    *)
(*     statement over a context manager: the stream is entered, and its    *)
(*     exit runs on every way out of the block;                            *)
(*   - stream.read(n) raises ReadError when fewer than n bits remain;      *)
(*   - bytes.decode('utf-8') is CPython's strict UTF-8 decoder.            *)
(***************************************************************************)
EXTENDS Integers, Sequences, FiniteSets, TLC

\* ------------------------------------------------------------------ bounds

\* Longest run of bytes that follows the 8 identifier bytes in a model file.
MaxTrail == 1

\* Longest list of SubItem values handed to Tree.create.
MaxSubItems == 1

\* Most calls of Tree.open on one path in a run.
MaxOpens == 2

\* --------------------------------------------------------------- constants

\* b"NEKOTREE"
NEKOTREE == <<78, 69, 75, 79, 84, 82, 69, 69>>

\* stream.read(8 * 8): the number of bits read
IdentifierBits == 8 * 8

\* "Invalid file identifier: " as code points
MessagePrefix ==
    <<73, 110, 118, 97, 108, 105, 100, 32, 102, 105, 108, 101, 32,
      105, 100, 101, 110, 116, 105, 102, 105, 101, 114, 58, 32>>

\* ------------------------------------------------------------------- files

Paths == {"a.tree", "b.tree"}

\* A path with no file behind it.
Absent == <<-1>>

\* NEKOTREE with the bytes from position i on replaced by pat.
Splice(i, pat) ==
    SubSeq(NEKOTREE, 1, i - 1) \o pat \o SubSeq(NEKOTREE, i + Len(pat), 8)

\* 8-byte heads that differ from NEKOTREE: one position each (F for the byte
\* there), NEKOTRFF, bytes that are no UTF-8 (0xFF; a lead byte 0xC3 with
\* nothing after it), and a well-formed two-byte character (0xC3 0xA9).
Heads ==
    {NEKOTREE}
    \cup {Splice(i, <<70>>) : i \in 1..8}
    \cup {Splice(7, <<70, 70>>), Splice(8, <<255>>), Splice(1, <<255>>),
          Splice(8, <<195>>), Splice(7, <<195, 169>>)}

TrailBytes == {0, 169}

RECURSIVE SeqsUpTo(_, _)
SeqsUpTo(S, n) ==
    IF n = 0 THEN {<<>>}
    ELSE LET shorter == SeqsUpTo(S, n - 1)
         IN  shorter \cup {Append(s, x) : s \in shorter, x \in S}

\* Files with trailing bytes after the 8 identifier bytes; after the lead byte
\* 0xC3 in the eighth place the trailing 0xA9 would complete a character.
TrailHeads == {NEKOTREE, Splice(7, <<70, 70>>), Splice(8, <<195>>)}

Long == {h \o t : h \in TrailHeads, t \in SeqsUpTo(TrailBytes, MaxTrail)}

\* Files shorter than 8 bytes: the prefixes of NEKOTREE, the empty file
\* included, and short files that are no UTF-8.
Short ==
    {SubSeq(NEKOTREE, 1, n) : n \in 0..7}
    \cup {SubSeq(Splice(1, <<255>>), 1, n) : n \in {1, 7}}

FileContents == Heads \cup Long \cup Short

\* SubItem: a record with the one field length (lines 8-10).
SubItem == [length : {0, 2147483647}]

SubItemLists == SeqsUpTo(SubItem, MaxSubItems)

\* ------------------------------------------------------------ UTF-8 decode

IsCont(x) == x \in 128..191

\* The bytes allowed right after lead byte b0 of a 3- or 4-byte sequence.
SecondOf(b0) ==
    CASE b0 = 224 -> 160..191
      [] b0 = 237 -> 128..159
      [] b0 = 240 -> 144..191
      [] b0 = 244 -> 128..143
      [] OTHER    -> 128..191

\* Width of the well-formed UTF-8 sequence starting at b[i], 0 if there is none.
Utf8Width(b, i) ==
    LET b0 == b[i]
        n  == Len(b)
    IN  IF b0 < 128 THEN 1
        ELSE IF b0 \in 194..223 /\ i + 1 <= n /\ IsCont(b[i + 1]) THEN 2
        ELSE IF b0 \in 224..239 /\ i + 2 <= n /\ b[i + 1] \in SecondOf(b0)
                /\ IsCont(b[i + 2]) THEN 3
        ELSE IF b0 \in 240..244 /\ i + 3 <= n /\ b[i + 1] \in SecondOf(b0)
                /\ IsCont(b[i + 2]) /\ IsCont(b[i + 3]) THEN 4
        ELSE 0

CodePoint(b, i, w) ==
    CASE w = 1 -> b[i]
      [] w = 2 -> (b[i] % 32) * 64 + (b[i + 1] % 64)
      [] w = 3 -> (b[i] % 16) * 4096 + (b[i + 1] % 64) * 64 + (b[i + 2] % 64)
      [] OTHER -> (b[i] % 8) * 262144 + (b[i + 1] % 64) * 4096
                  + (b[i + 2] % 64) * 64 + (b[i + 3] % 64)

RECURSIVE DecodeFrom(_, _)
DecodeFrom(b, i) ==
    IF i > Len(b) THEN [ok |-> TRUE, text |-> <<>>]
    ELSE LET w == Utf8Width(b, i)
         IN  IF w = 0 THEN [ok |-> FALSE, text |-> <<>>]
             ELSE LET rest == DecodeFrom(b, i + w)
                  IN  [ok |-> rest.ok,
                       text |-> IF rest.ok THEN <<CodePoint(b, i, w)>> \o rest.text
                                ELSE <<>>]

\* A mutant: errors='replace', every undecodable byte becomes U+FFFD.
RECURSIVE DecodeLossyFrom(_, _)
DecodeLossyFrom(b, i) ==
    IF i > Len(b) THEN <<>>
    ELSE LET w == Utf8Width(b, i)
         IN  IF w = 0 THEN <<65533>> \o DecodeLossyFrom(b, i + 1)
             ELSE <<CodePoint(b, i, w)>> \o DecodeLossyFrom(b, i + w)

decode_lossy(b) == [ok |-> TRUE, text |-> DecodeLossyFrom(b, 1)]

\* bytes.decode('utf-8'): the text, or ok = FALSE for UnicodeDecodeError.
decode(b) == DecodeFrom(b, 1)

\* ------------------------------------------------------------------ state

VARIABLES
    fs,            \* the file system: path -> bytes, or Absent
    pc,            \* where the running call of Tree.open stands; "idle" between calls
    file_path,     \* the argument of the running call of Tree.open
    stream,        \* the ConstBitStream of the running call
    identifier,    \* the bytes read at line 19
    handles,       \* the paths a stream is open on
    results,       \* path -> how the latest Tree.open of it ended
    last,          \* the latest call that ended
    fs0,           \* history: the file system at the start
    firstResults,  \* history: path -> how the first Tree.open of it ended
    opens          \* history: path -> number of calls of Tree.open

vars == <<fs, pc, file_path, stream, identifier, handles, results, last,
          fs0, firstResults, opens>>

NoText == <<>>

\* How a call ends: it returns (Python's None here), or raises.
Returned(v) == [kind |-> "Returned", value |-> v, msg |-> NoText]

Raised(kind, msg) == [kind |-> kind, value |-> "", msg |-> msg]

NotCalled == [kind |-> "NotCalled", value |-> "", msg |-> NoText]

NoStream == [data |-> <<>>, pos |-> 0]

NoPath == ""

\* ------------------------------------------------------- the code's pieces

\* ConstBitStream(filename=file_path): a read-only stream at bit 0.
ConstBitStream(f, p) == [data |-> f[p], pos |-> 0]

\* Mutants of read: a short read that returns what is there; a read that
\* does not move the cursor; a read that runs to the end of the stream.
read_available(s, n) ==
    LET first == (s.pos \div 8) + 1
        avail == Len(s.data) * 8 - s.pos
        m     == IF n <= avail THEN n ELSE avail
    IN  [ok |-> TRUE,
         bytes |-> SubSeq(s.data, first, (s.pos + m) \div 8),
         stream |-> [s EXCEPT !.pos = s.pos + m]]

read_peek(s, n) ==
    IF s.pos + n > Len(s.data) * 8
    THEN [ok |-> FALSE, bytes |-> <<>>, stream |-> s]
    ELSE [ok |-> TRUE,
          bytes |-> SubSeq(s.data, (s.pos \div 8) + 1, (s.pos + n) \div 8),
          stream |-> s]

read_to_end(s, n) ==
    IF s.pos + n > Len(s.data) * 8
    THEN [ok |-> FALSE, bytes |-> <<>>, stream |-> s]
    ELSE [ok |-> TRUE,
          bytes |-> SubSeq(s.data, (s.pos \div 8) + 1, Len(s.data)),
          stream |-> [s EXCEPT !.pos = Len(s.data) * 8]]

\* stream.read(n): the next n bits as bytes and the stream moved past them;
\* ok = FALSE (ReadError, the stream not moved) when fewer than n bits remain.
read(s, n) ==
    IF s.pos + n > Len(s.data) * 8
    THEN [ok |-> FALSE, bytes |-> <<>>, stream |-> s]
    ELSE [ok |-> TRUE,
          bytes |-> SubSeq(s.data, (s.pos \div 8) + 1, (s.pos + n) \div 8),
          stream |-> [s EXCEPT !.pos = s.pos + n]]

\* A mutant: the comparison the other way round.
identifier_matches(b) == b = NEKOTREE

\* identifier.bytes != b"NEKOTREE"
identifier_differs(b) == b # NEKOTREE

\* A mutant: the message shows the expected identifier.
message_expected(text) == MessagePrefix \o decode(NEKOTREE).text

\* f"Invalid file identifier: {text}"
message(text) == MessagePrefix \o text

\* A mutant: the stream is left open.
exit_leak(h, p) == h

\* Leaving the with block: the stream on p is released.
exit(h, p) == h \ {p}

\* A mutant: create writes the identifier to the destination.
create_writes(f, p, subitems) == [f EXCEPT ![p] = NEKOTREE]

\* Tree.create's body is pass: the file system after it is the one before.
create(f, p, subitems) == f

\* ----------------------------------------------------------------- actions

Init ==
    /\ fs \in [Paths -> FileContents \cup {Absent}]
    /\ pc = "idle"
    /\ file_path = NoPath
    /\ stream = NoStream
    /\ identifier = <<>>
    /\ handles = {}
    /\ results = [p \in Paths |-> NotCalled]
    /\ last = [op |-> "none", path |-> NoPath, outcome |-> NotCalled, pos |-> 0]
    /\ fs0 = fs
    /\ firstResults = [p \in Paths |-> NotCalled]
    /\ opens = [p \in Paths |-> 0]

\* The call of Tree.open on p ends with outcome o; s is the stream as the call
\* leaves it (NoStream if none was made).
EndOpen(p, o, s) ==
    /\ pc' = "idle"
    /\ file_path' = NoPath
    /\ stream' = NoStream
    /\ identifier' = <<>>
    /\ results' = [results EXCEPT ![p] = o]
    /\ firstResults' = IF firstResults[p] = NotCalled
                       THEN [firstResults EXCEPT ![p] = o] ELSE firstResults
    /\ last' = [op |-> "open", path |-> p, outcome |-> o, pos |-> s.pos]

\* Line 18, no file at p: the constructor raises and no stream exists.
OpenMissing(p) ==
    /\ pc = "idle"
    /\ opens[p] < MaxOpens
    /\ fs[p] = Absent
    /\ opens' = [opens EXCEPT ![p] = @ + 1]
    /\ EndOpen(p, Raised("FileNotFoundError", NoText), NoStream)
    /\ UNCHANGED <<fs, fs0, handles>>

\* A mutant: the file is opened for writing and truncated.
OpenEnterTruncating(p) ==
    /\ pc = "idle"
    /\ opens[p] < MaxOpens
    /\ fs[p] # Absent
    /\ opens' = [opens EXCEPT ![p] = @ + 1]
    /\ fs' = [fs EXCEPT ![p] = <<>>]
    /\ file_path' = p
    /\ stream' = ConstBitStream(fs', p)
    /\ handles' = handles \cup {p}
    /\ pc' = "read"
    /\ UNCHANGED <<identifier, results, last, fs0, firstResults>>

\* Line 18: the stream over the file at p is made and the with block entered.
OpenEnter(p) ==
    /\ pc = "idle"
    /\ opens[p] < MaxOpens
    /\ fs[p] # Absent
    /\ opens' = [opens EXCEPT ![p] = @ + 1]
    /\ file_path' = p
    /\ stream' = ConstBitStream(fs, p)
    /\ handles' = handles \cup {p}
    /\ pc' = "read"
    /\ UNCHANGED <<fs, identifier, results, last, fs0, firstResults>>

\* Line 19, fewer than 64 bits left: read raises, the with block is left.
ReadShort ==
    /\ pc = "read"
    /\ ~read(stream, IdentifierBits).ok
    /\ handles' = exit(handles, file_path)
    /\ EndOpen(file_path, Raised("ReadError", NoText), read(stream, IdentifierBits).stream)
    /\ UNCHANGED <<fs, fs0, opens>>

\* Line 19: identifier = stream.read(8 * 8)
ReadIdentifier ==
    /\ pc = "read"
    /\ read(stream, IdentifierBits).ok
    /\ identifier' = read(stream, IdentifierBits).bytes
    /\ stream' = read(stream, IdentifierBits).stream
    /\ pc' = "check"
    /\ UNCHANGED <<fs, file_path, handles, results, last, fs0, firstResults, opens>>

\* Line 20, the identifier is NEKOTREE: the with block ends, the stream is
\* released, and the function falls off its end (it returns None).
IdentifierAccepted ==
    /\ pc = "check"
    /\ ~identifier_differs(identifier)
    /\ handles' = exit(handles, file_path)
    /\ EndOpen(file_path, Returned("None"), stream)
    /\ UNCHANGED <<fs, fs0, opens>>

\* Line 20, the identifier is something else: on to the raise statement.
IdentifierRejected ==
    /\ pc = "check"
    /\ identifier_differs(identifier)
    /\ pc' = "raise"
    /\ UNCHANGED <<fs, file_path, stream, identifier, handles, results, last,
                   fs0, firstResults, opens>>

\* Line 22, the bytes are no UTF-8: decode raises inside the f-string, nothing
\* catches it, the with block is left.
RaiseDecodeError ==
    /\ pc = "raise"
    /\ ~decode(identifier).ok
    /\ handles' = exit(handles, file_path)
    /\ EndOpen(file_path, Raised("UnicodeDecodeError", NoText), stream)
    /\ UNCHANGED <<fs, fs0, opens>>

\* Lines 21-23: raise InvalidFileIdentifier(f"Invalid file identifier: ...")
RaiseInvalidFileIdentifier ==
    /\ pc = "raise"
    /\ decode(identifier).ok
    /\ handles' = exit(handles, file_path)
    /\ EndOpen(file_path,
               Raised("InvalidFileIdentifier", message(decode(identifier).text)),
               stream)
    /\ UNCHANGED <<fs, fs0, opens>>

\* Lines 25-27: Tree.create(file_path, subitems)
Create(p, subitems) ==
    /\ pc = "idle"
    /\ fs' = create(fs, p, subitems)
    /\ last' = [op |-> "create", path |-> p, outcome |-> Returned("None"), pos |-> 0]
    /\ UNCHANGED <<pc, file_path, stream, identifier, handles, results,
                   fs0, firstResults, opens>>

Next ==
    \/ \E p \in Paths : OpenMissing(p)
    \/ \E p \in Paths : OpenEnter(p)
    \/ ReadShort
    \/ ReadIdentifier
    \/ IdentifierAccepted
    \/ IdentifierRejected
    \/ RaiseDecodeError
    \/ RaiseInvalidFileIdentifier
    \/ \E p \in Paths, subitems \in SubItemLists : Create(p, subitems)

Spec == Init /\ [][Next]_vars

\* ------------------------------------------------------------- vocabulary

\* Tree.open has been called on p and the call has ended.
Called(p) == results[p] # NotCalled

IsFile(p) == fs[p] # Absent

\* The first 8 bytes of a file of at least 8 bytes.
First8(p) == SubSeq(fs[p], 1, 8)

AtLeast8(p) == IsFile(p) /\ Len(fs[p]) >= 8

\* sub occurs in text
Contains(text, sub) ==
    \E i \in 0..(Len(text) - Len(sub)) : SubSeq(text, i + 1, i + Len(sub)) = sub

\* Bytes that are certainly no UTF-8: a byte that occurs in no UTF-8 sequence,
\* or a lead byte in the last place.
NotUtf8(b) ==
    \/ \E i \in 1..Len(b) : b[i] \in {192, 193} \cup (245..255)
    \/ b[Len(b)] >= 194

NEKOTRFF == <<78, 69, 75, 79, 84, 82, 70, 70>>

\* ------------------------------------------------------------------ claims

\* C1: a file whose first 8 bytes are NEKOTREE, whatever follows them, is
\* never answered with InvalidFileIdentifier.
C1_MagicNotRejected ==
    \A p \in Paths :
        (Called(p) /\ AtLeast8(p) /\ First8(p) = NEKOTREE)
            => results[p].kind # "InvalidFileIdentifier"

\* C1 witness: NEKOTREE followed by trailing bytes has been opened, and the
\* call got through the header check.
C1_Witness ==
    \E p \in Paths :
        /\ Called(p) /\ IsFile(p) /\ Len(fs[p]) > 8 /\ First8(p) = NEKOTREE
        /\ results[p].kind = "Returned"

\* C2 (as claimed): every file of at least 8 bytes whose first 8 bytes are
\* not NEKOTREE is answered with InvalidFileIdentifier and nothing else.
C2_MismatchIsInvalidFileIdentifier ==
    \A p \in Paths :
        (Called(p) /\ AtLeast8(p) /\ First8(p) # NEKOTREE)
            => results[p].kind = "InvalidFileIdentifier"

\* C3: between calls no stream is open: every way out of Tree.open has
\* released the stream it acquired; during a call exactly that stream is open.
C3_HandleReleased ==
    /\ pc = "idle" => handles = {}
    /\ pc # "idle" => handles = {file_path}

\* C3 witness: one file was accepted, another rejected, and nothing is open.
C3_Witness ==
    /\ pc = "idle"
    /\ handles = {}
    /\ \E p, q \in Paths :
        /\ results[p].kind = "Returned"
        /\ results[q].kind \in {"InvalidFileIdentifier", "UnicodeDecodeError", "ReadError"}

C5_MessageShowsBytesRead ==
    \A p \in Paths :
        results[p].kind = "InvalidFileIdentifier"
            => /\ AtLeast8(p)
               /\ results[p].msg = MessagePrefix \o decode(First8(p)).text
               /\ Contains(results[p].msg, decode(First8(p)).text)
               /\ ~Contains(results[p].msg, NEKOTREE)
               /\ First8(p) = NEKOTRFF => results[p].msg = MessagePrefix \o NEKOTRFF

\* C5 witness: the file NEKOTRFF was opened and rejected.
C5_Witness ==
    \E p \in Paths :
        fs[p] = NEKOTRFF /\ results[p].kind = "InvalidFileIdentifier"

\* C6: a step of Tree.create, whatever the path and the list, changes no
\* file, opens nothing, raises nothing and returns None.
C6_CreateNoEffect ==
    [][(\E p \in Paths, subitems \in SubItemLists : Create(p, subitems))
         => /\ fs' = fs
            /\ handles' = handles
            /\ results' = results
            /\ last'.outcome = Returned("None")]_vars

\* C6 witness: create was called on a path with no file, and there is still
\* no file there.
C6_Witness ==
    last.op = "create" /\ fs[last.path] = Absent

\* C7: a call that accepts the identifier starts at bit 0, leaves the stream
\* at bit 64 (byte 8), and returns None.
C7_ConsumesEightBytes ==
    /\ pc = "read" => stream.pos = 0
    /\ pc \in {"check", "raise"} => stream.pos = 8 * 8 /\ Len(identifier) = 8
    /\ (last.op = "open" /\ last.outcome.kind = "Returned")
           => last.pos = 8 * 8 /\ last.outcome.value = "None"

\* C7 witness: a file with a body after the identifier was accepted.
C7_Witness ==
    /\ last.op = "open"
    /\ last.outcome.kind = "Returned"
    /\ Len(fs[last.path]) > 8

\* C8: 8 bytes that are not NEKOTREE and are no UTF-8 end the call in
\* UnicodeDecodeError, not in InvalidFileIdentifier.
C8_DecodeFailureEscapes ==
    \A p \in Paths :
        (Called(p) /\ AtLeast8(p) /\ First8(p) # NEKOTREE /\ NotUtf8(First8(p)))
            => results[p].kind = "UnicodeDecodeError"

\* C8 witness: a file starting NEKOTRE 0xFF was opened.
C8_Witness ==
    \E p \in Paths :
        /\ Called(p) /\ AtLeast8(p) /\ First8(p) = Splice(8, <<255>>)
        /\ results[p].kind = "UnicodeDecodeError"

\* C9: two files of at least 8 bytes with the same first 8 bytes get the
\* same outcome, kind and message.
C9_OutcomeOfFirst8Only ==
    \A p, q \in Paths :
        (Called(p) /\ Called(q) /\ AtLeast8(p) /\ AtLeast8(q) /\ First8(p) = First8(q))
            => results[p] = results[q]

\* C9 witness: two files of different length with the same first 8 bytes
\* have both been opened.
C9_Witness ==
    \E p, q \in Paths :
        /\ Called(p) /\ Called(q) /\ AtLeast8(p) /\ AtLeast8(q)
        /\ First8(p) = First8(q)
        /\ Len(fs[p]) # Len(fs[q])

\* C10: the file system stays what it was at the start, and every later open
\* of a path ends as the first one did.
C10_FilesUnchanged ==
    /\ fs = fs0
    /\ \A p \in Paths : results[p] = firstResults[p]

\* C10 witness: a file was opened twice, with a create on it in between or
\* after.
C10_Witness ==
    \E p \in Paths :
        /\ opens[p] >= 2 /\ pc = "idle" /\ IsFile(p)
        /\ last.op = "create" /\ last.path = p

====
